---- MODULE Spec2Model ----
(***************************************************************************)
(* A model of the turing_machine crate: the Tape (tape.rs), the            *)
(* TransitionFn with its pairing hasher (transition_fn.rs), the run        *)
(* operations of TuringMachine (turing_machine.rs) and the replay of a     *)
(* Recording (recording.rs).                                               *)
(*                                                                         *)
(* Rust values are modelled as follows.  A Vec is a sequence, vector index *)
(* i being element i + 1.  A tuple is a sequence.  An Option is a tagged   *)
(* record.  A bool direction is a BOOLEAN.  A panic is the control         *)
(* position "panicked".                                                    *)
(***************************************************************************)
EXTENDS Integers, Sequences, FiniteSets, TLC

VARIABLES
    overflow_checks, \* build profile: TRUE = arithmetic overflow panics (dev/test), FALSE = it wraps (release)
    m,               \* m[c]: TuringMachine c, [transition_fn, state, head_loc]
    tape,            \* tape[c]: raw_symbols of the Tape handed to machine c
    cur,             \* the machine/tape pair the running call works on
    pc,              \* control position of the caller and of the running call
    op,              \* the run operation being executed
    halt_setting,    \* its HaltSetting argument
    calls,           \* number of run calls the caller has made on pair 1
    step_num,        \* local step_num
    start,           \* local start (Instant::now() at line 112 / 155)
    now,             \* the monotonic clock
    symbol,          \* local symbol
    output,          \* the Option returned by transition_fn.run in the loop
    steps,           \* local steps
    input,           \* local input (the tape clone)
    init_state,      \* local init_state
    init_head_loc,   \* local init_head_loc
    rec,             \* rec[c]: the Recording the last recording call on pair c returned, or None
    played,          \* what play_in_console showed for rec[1]: the frames after each entry
    entry,           \* history: tape, state and head_loc of the pair at the entry of the running call
    hist,            \* history: hist[c] lists, per step applied in the last call on pair c, the step and the configuration it left
    last,            \* history: last[c] is the transition last applied to machine c since construction or reset, or None
    state_table,     \* the argument of the TransitionFn::new call under test
    built,           \* the outcome of that call
    probe,           \* the last lookup made on the built table: [key, result]
    tcall,           \* the last call made on a Tape or on an index function, with its result
    written,         \* history: the writes made to tape[1] since Tape::default(), in order, as <<n, symbol>>
    kept,            \* kept[i]: the step bound and the Recording of the i-th of the consecutive calls on pair 1
    chaitin          \* the frame of chaitin_approx: its arguments, its locals, and (history) its last count

vars == <<overflow_checks, m, tape, cur, pc, op, halt_setting, calls, step_num,
          start, now, symbol, output, steps, input, init_state, init_head_loc,
          rec, played, entry, hist, last, state_table, built, probe, tcall,
          written, kept, chaitin>>

\* Option: None, or Some(v) with v in field v.
None == [tag |-> "None"]

Some(v) == [tag |-> "Some", v |-> v]

IsSome(o) == o.tag = "Some"

(***************************************************************************)
(* Bounds of the model.                                                    *)
(***************************************************************************)
\* The model's unsigned word has WordBits bits (the program's u64 has 64):
\* TLC's integers cannot hold the pairing arithmetic at full width.
WordBits == 8

\* At most MaxSteps transitions are applied in one run call (the largest step
\* bound handed to a call is 7).
MaxSteps == 8

\* The caller makes at most MaxCalls run calls on a pair.
MaxCalls == 2

\* The clock takes the values 0 .. MaxClock.
MaxClock == 2

\* TransitionFn::new is tried on state tables of at most MaxPairs pairs.
MaxPairs == 3

RECURSIVE Pow2(_)
Pow2(n) == IF n = 0 THEN 1 ELSE 2 * Pow2(n - 1)

Word == Pow2(WordBits)

\* The least value v whose pairing product v * (v + 1) leaves the word.
BigValue == Pow2((WordBits + 1) \div 2)

(***************************************************************************)
(* Integer helpers: Rust's / truncates toward zero, TLA+'s \div floors.    *)
(***************************************************************************)
\* The outcome of an arithmetic overflow in a build that checks for it, and
\* of anything computed from it; as the result of a call that returns a
\* number, the call panicked.
Overflow == -1

\* The outcome of a call that panicked.
Panic == [tag |-> "Panic"]

\* i64: the signed word of the same width as the unsigned one.
MinI64 == -(Word \div 2)

MaxI64 == (Word \div 2) - 1

fits_i64(x) == MinI64 <= x /\ x <= MaxI64

\* What an i64 operation leaves where arithmetic wraps (two's complement).
wrap_i64(x) == ((x - MinI64) % Word) + MinI64

\* x as usize
as_usize(x) == x % Word

TruncDiv(a, b) == IF a >= 0 THEN a \div b ELSE -((-a) \div b)

abs(int) == IF int < 0 THEN -int ELSE int

signum(int) == IF int > 0 THEN 1 ELSE IF int < 0 THEN -1 ELSE 0

Min(a, b) == IF a <= b THEN a ELSE b

\* The element of a singleton set (a value bound as the element of a set is
\* computed once, however often it is used).
Only(set) == CHOOSE x \in set : TRUE

(***************************************************************************)
(* tape.rs                                                                 *)
(***************************************************************************)
\* ((4 * int.abs() + int.signum() - 1) / 2) as usize.  An operation whose
\* result leaves the i64 panics where the build checks for overflow and wraps
\* where it does not.
i64_to_idx(int) ==
    LET exact == 4 * abs(int) + signum(int) - 1
        w1 == wrap_i64(abs(int))
        w2 == wrap_i64(4 * w1)
        w3 == wrap_i64(w2 + signum(int))
        w4 == wrap_i64(w3 - 1)
    IN  IF /\ fits_i64(abs(int))
           /\ fits_i64(4 * abs(int))
           /\ fits_i64(4 * abs(int) + signum(int))
           /\ fits_i64(exact)
        THEN as_usize(TruncDiv(exact, 2))
        ELSE IF overflow_checks THEN Overflow
        ELSE as_usize(TruncDiv(w4, 2))

\* idx_to_i64, wrong: the division rounds down instead of toward zero.
idx_to_i64_floor(idx) == (((1 - 2 * (idx % 2)) * idx) \div 2) - (idx % 2)

\* (1 - 2 * (idx as i64 % 2)) * idx as i64 / 2 - idx as i64 % 2
idx_to_i64(idx) == TruncDiv((1 - 2 * (idx % 2)) * idx, 2) - (idx % 2)

\* Vec::resize(new_len, 0)
resize(raw, new_len) ==
    IF new_len <= Len(raw) THEN SubSeq(raw, 1, new_len)
    ELSE raw \o [k \in 1..(new_len - Len(raw)) |-> 0]

symbol_at_n(raw, n) ==
    Only({IF idx = Overflow THEN Overflow
          ELSE IF idx >= Len(raw) THEN 0 ELSE raw[idx + 1] :
          idx \in {i64_to_idx(n)}})

\* write, wrong: the symbol is dropped whenever the vector had to grow.
write_lost_on_growth(raw, n, sym) ==
    LET idx == i64_to_idx(n)
    IN  IF idx >= Len(raw) THEN resize(raw, idx + 1)
        ELSE [raw EXCEPT ![idx + 1] = sym]

\* write, wrong: the vector is resized to idx + 1 on every write, so a write
\* below its end truncates it.
write_resize_always(raw, n, sym) ==
    LET idx == i64_to_idx(n)
    IN  [resize(raw, idx + 1) EXCEPT ![idx + 1] = sym]

write(raw, n, sym) ==
    Only({IF idx = Overflow THEN Panic
          ELSE [(IF idx >= Len(raw) THEN resize(raw, idx + 1) ELSE raw)
                   EXCEPT ![idx + 1] = sym] :
          idx \in {i64_to_idx(n)}})

RECURSIVE TapeNewFrom(_, _, _)
TapeNewFrom(raw, inp, s) ==
    IF s >= Len(inp) THEN raw
    ELSE TapeNewFrom(write(raw, s, inp[s + 1]), inp, s + 1)

\* Tape::new(input)
TapeNew(inp) == TapeNewFrom(<<>>, inp, 0)

\* no_trailing_or_leading_zeros, wrong: the leading zeros stay.
no_trailing_zeros(vec) ==
    LET nz == {k \in 1..Len(vec) : vec[k] # 0}
    IN  IF nz = {} THEN <<>>
        ELSE SubSeq(vec, 1, CHOOSE k \in nz : \A j \in nz : k >= j)

no_trailing_or_leading_zeros(vec) ==
    LET nz == {k \in 1..Len(vec) : vec[k] # 0}
    IN  IF nz = {} THEN <<>>
        ELSE SubSeq(vec, CHOOSE k \in nz : \A j \in nz : k <= j,
                         CHOOSE k \in nz : \A j \in nz : k >= j)

\* Tape::symbols: the cells paired with their locations, sorted by location,
\* the locations dropped, the outer zeros trimmed.
symbols(raw) ==
    LET v1   == {<<idx_to_i64(i), raw[i + 1]>> : i \in 0..(Len(raw) - 1)}
        rank(p) == Cardinality({q \in v1 : q[1] < p[1]}) + 1
        v2   == [k \in 1..Cardinality(v1) |-> (CHOOSE p \in v1 : rank(p) = k)[2]]
    IN  no_trailing_or_leading_zeros(v2)

\* Vec::sort on a vector of integers: element j goes to the place that the
\* number of elements ordered before it gives.
sort(vec) ==
    LET before(j) == {i \in 1..Len(vec) :
                        vec[i] < vec[j] \/ (vec[i] = vec[j] /\ i < j)}
    IN  [k \in 1..Len(vec) |->
            vec[CHOOSE j \in 1..Len(vec) : Cardinality(before(j)) = k - 1]]

\* The indexes, in order, of the elements of raw from index i on that equal sym.
RECURSIVE filter(_, _, _)
filter(raw, sym, i) ==
    IF i >= Len(raw) THEN <<>>
    ELSE (IF raw[i + 1] = sym THEN <<i>> ELSE <<>>) \o filter(raw, sym, i + 1)

\* Tape::symbol: the locations of the cells that hold sym, sorted.
Tape_symbol(raw, sym) ==
    LET found == filter(raw, sym, 0)
    IN  sort([k \in 1..Len(found) |-> idx_to_i64(found[k])])

\* input.len() * 2 - 1 in usize: below 0 the subtraction panics where the
\* build checks for overflow and wraps where it does not.
required_capacity(inp) ==
    IF Len(inp) * 2 - 1 >= 0 THEN Len(inp) * 2 - 1
    ELSE IF overflow_checks THEN Overflow
    ELSE as_usize(Len(inp) * 2 - 1)

\* Vec::<u64>::reserve(capacity) on an empty vector panics ("capacity
\* overflow") when capacity elements take more than isize::MAX bytes.
reserve_panics(capacity) == capacity * 8 > MaxI64

\* Tape::with_capacity(input, capacity): whether the call panicked, and the
\* tape it returned if it did not.
with_capacity(inp, capacity) ==
    IF required_capacity(inp) = Overflow THEN [panicked |-> TRUE]
    ELSE IF capacity < required_capacity(inp) THEN [panicked |-> TRUE]
    ELSE IF reserve_panics(capacity) THEN [panicked |-> TRUE]
    ELSE [panicked |-> FALSE, tape |-> TapeNewFrom(<<>>, inp, 0)]

\* TapeEq, wrong: the backing vectors are compared as they are.
TapeEq_raw(a, b) == a = b

\* impl PartialEq for Tape
TapeEq(a, b) == no_trailing_or_leading_zeros(a) = no_trailing_or_leading_zeros(b)

(***************************************************************************)
(* transition_fn.rs                                                        *)
(***************************************************************************)
\* u64 + and *: the result wraps modulo the word unless the build checks.
add_u64(a, b, checks) ==
    IF a = Overflow \/ b = Overflow THEN Overflow
    ELSE IF a + b >= Word THEN (IF checks THEN Overflow ELSE (a + b) % Word)
    ELSE a + b

mul_u64(a, b, checks) ==
    IF a = Overflow \/ b = Overflow THEN Overflow
    ELSE IF a * b >= Word THEN (IF checks THEN Overflow ELSE (a * b) % Word)
    ELSE a * b

div_u64(a, b) == IF a = Overflow THEN Overflow ELSE a \div b

\* PairingHasher::default()
PairingHasherDefault == [hash |-> 0, n |-> 0]

\* PairingHasher::write_u64:
\*   self.hash = i + self.n * (self.hash + i) * (self.hash + i + 1) / 2; self.n = 1
write_u64(self, i, checks) ==
    LET t1 == add_u64(self.hash, i, checks)
        p1 == mul_u64(self.n, t1, checks)
        t2 == add_u64(add_u64(self.hash, i, checks), 1, checks)
        p2 == mul_u64(p1, t2, checks)
        d  == div_u64(p2, 2)
    IN  [hash |-> add_u64(i, d, checks), n |-> 1]

\* Hash of a (u64, u64) key under PairingBuildHasher: each component is fed
\* to write_u64 in turn, then finish() returns hash.  A panic in the first
\* write ends the hashing.
hash_key(key, checks) ==
    Only({IF h1.hash = Overflow THEN Overflow
          ELSE write_u64(h1, key[2], checks).hash :
              h1 \in {write_u64(PairingHasherDefault, key[1], checks)}})

\* HashMap::insert: a map is the set of its entries, each found by its hash
\* and then by the equality of its key.
map_insert(map, key, value, checks) ==
    Only({IF h = Overflow THEN [ok |-> FALSE, map |-> {}]
          ELSE [ok |-> TRUE,
                map |-> {e \in map : ~(e.hash = h /\ e.key = key)}
                            \cup {[hash |-> h, key |-> key, value |-> value]}] :
              h \in {hash_key(key, checks)}})

\* HashMap::get(..).copied()
map_get(map, key, checks) ==
    Only({IF h = Overflow THEN Panic
          ELSE LET found == {e \in map : e.hash = h /\ e.key = key}
               IN  IF found = {} THEN None ELSE Some(Only(found).value) :
              h \in {hash_key(key, checks)}})

\* The iterator chain of TransitionFn::new from element s on: scan panics on
\* a key it has seen, from_iter inserts what scan lets through.
RECURSIVE new_from(_, _, _, _, _)
new_from(seen, map, table, s, checks) ==
    IF s > Len(table) THEN [ok |-> TRUE, map |-> map]
    ELSE LET x == table[s]
         IN  IF x[1] \in seen THEN [ok |-> FALSE, why |-> "duplicate"]
             ELSE LET map2 == map_insert(map, x[1], x[2], checks)
                  IN  IF ~map2.ok THEN [ok |-> FALSE, why |-> "overflow"]
                      ELSE new_from(seen \cup {x[1]}, map2.map, table, s + 1, checks)

\* TransitionFn::new
TransitionFn_new(table, checks) == new_from({}, {}, table, 1, checks)

\* TransitionFn::run
TransitionFn_run(self, st, sy, checks) ==
    Only({map_get(self, key, checks) : key \in {<<st, sy>>}})

\* enum_keys, wrong: the last symbol gets no key.
enum_keys_short(num_states, num_symbols) ==
    [i \in 1..(num_states * (num_symbols - 1)) |->
        <<(i - 1) \div (num_symbols - 1), (i - 1) % (num_symbols - 1)>>]

\* enumerate, lines 65-70: keys holds (t, y) for t in 0..num_states and, within
\* each t, y in 0..num_symbols.
enum_keys(num_states, num_symbols) ==
    [i \in 1..(num_states * num_symbols) |->
        <<(i - 1) \div num_symbols, (i - 1) % num_symbols>>]

\* enumerate, lines 72-79: values holds (n, w, b != 0) for n in
\* 0..num_states + 1, w in 0..num_symbols, b in 0..2, in this nesting.
enum_values(num_states, num_symbols) ==
    [i \in 1..((num_states + 1) * num_symbols * 2) |->
        <<(i - 1) \div (num_symbols * 2),
          ((i - 1) \div 2) % num_symbols,
          (i - 1) % 2 # 0>>]

\* permute_with_repetition: for each item of vec in turn, every permutation of
\* length n - 1 with the item put in front.
RECURSIVE permute_with_repetition(_, _)
permute_with_repetition(vec, n) ==
    IF n = 0 THEN << <<>> >>
    ELSE LET sub == permute_with_repetition(vec, n - 1)
         IN  [i \in 1..(Len(vec) * Len(sub)) |->
                 <<vec[((i - 1) \div Len(sub)) + 1]>>
                     \o sub[((i - 1) % Len(sub)) + 1]]

\* TransitionFn::enumerate: the outcome of TransitionFn::new for the state
\* table that pairs keys[k] with value_permutations[f][k], for every f.
enumerate(num_states, num_symbols, checks) ==
    LET keys == enum_keys(num_states, num_symbols)
        values == enum_values(num_states, num_symbols)
        value_permutations == permute_with_repetition(values, Len(keys))
    IN  [f \in 1..Len(value_permutations) |->
            TransitionFn_new([k \in 1..Len(keys) |->
                                 <<keys[k], value_permutations[f][k]>>],
                             checks)]

(***************************************************************************)
(* Inputs of the model: state tables, tape inputs, halt settings.          *)
(***************************************************************************)
\* {(0,0)->(1,1,right), (1,0)->(0,1,left)}
TableTwoRules ==
    << <<<<0, 0>>, <<1, 1, TRUE>>>>, <<<<1, 0>>, <<0, 1, FALSE>>>> >>

\* TableTwoRules and {(0,1)->(1,2,right), (1,1)->(0,2,left)}
TableFourRules ==
    << <<<<0, 0>>, <<1, 1, TRUE>>>>, <<<<1, 0>>, <<0, 1, FALSE>>>>,
       <<<<0, 1>>, <<1, 2, TRUE>>>>, <<<<1, 1>>, <<0, 2, FALSE>>>> >>

\* The table of test_run_with_halt_setting: it moves right for ever.
TableRightCycle ==
    << <<<<0, 0>>, <<1, 1, TRUE>>>>, <<<<1, 0>>, <<2, 2, TRUE>>>>,
       <<<<2, 0>>, <<0, 3, TRUE>>>> >>

\* The table of test_run_and_record.
TableRecord ==
    << <<<<0, 0>>, <<1, 1, TRUE>>>>, <<<<1, 0>>, <<1, 4, FALSE>>>>,
       <<<<1, 1>>, <<2, 1, FALSE>>>>, <<<<2, 0>>, <<3, 3, TRUE>>>> >>

\* A table that erases: it writes blanks while moving left, then stops.
TableErase ==
    << <<<<0, 0>>, <<1, 0, FALSE>>>>, <<<<0, 1>>, <<0, 0, FALSE>>>> >>

\* A table whose first step enters a state too large for the pairing hash.
TableBigState ==
    << <<<<0, 0>>, <<BigValue, 1, TRUE>>>> >>

Tables ==
    {<<>>, TableTwoRules, TableFourRules, TableRightCycle, TableRecord,
     TableErase, TableBigState}

\* The vectors handed to Tape::new (<<>> gives the tape of Tape::default()).
Inputs == {<<>>, <<1>>, <<0, 0, 1, 5, 9>>}

NoForcedHalt == [kind |-> "NoForcedHalt", n |-> 0]

AfterSteps(n) == [kind |-> "AfterSteps", n |-> n]

AfterDuration(d) == [kind |-> "AfterDuration", n |-> d]

HaltSettings ==
    {NoForcedHalt} \cup {AfterSteps(n) : n \in {0, 1, 2, 7}}
                   \cup {AfterDuration(d) : d \in {0, 1}}

Pairs == {1, 2}

(***************************************************************************)
(* turing_machine.rs                                                       *)
(***************************************************************************)
\* TuringMachine::new
TuringMachine_new(transition_fn) ==
    [transition_fn |-> transition_fn, state |-> 0, head_loc |-> 0]

\* reset, wrong: the head stays where it is.
reset_keeps_head(self) == [self EXCEPT !.state = 0]

\* TuringMachine::reset
reset(self) == [self EXCEPT !.state = 0, !.head_loc = 0]

\* head_move, wrong: true moves left.
head_move_flipped(right) == 1 - (IF right THEN 1 ELSE 0) * 2

\* head_move, wrong: the bool is added as it is, so false leaves the head
\* where it is.
head_move_stays(right) == IF right THEN 1 ELSE 0

\* output.2 as i64 * 2 - 1
head_move(right) == (IF right THEN 1 ELSE 0) * 2 - 1

\* set_state, wrong: the state is never updated.
set_state_keeps(self, out) == self

\* self.state = output.0
set_state(self, out) == [self EXCEPT !.state = out[1]]

\* self.head_loc += output.2 as i64 * 2 - 1
move_head(self, out) == [self EXCEPT !.head_loc = @ + head_move(out[3])]

\* steps.push(output)
push(stps, out) == Append(stps, out)

\* steps_exhausted, wrong: > for >=.
steps_exhausted_late(num, max_steps) == num > max_steps

\* step_num >= max_steps
steps_exhausted(num, max_steps) == num >= max_steps

\* duration_elapsed, wrong: > for >=.
duration_elapsed_late(t0, t, max_duration) == t - t0 > max_duration

\* start.elapsed() >= max_duration
duration_elapsed(t0, t, max_duration) == t - t0 >= max_duration

\* Recording { input, init_state, init_head_loc, steps }
Recording(inp, st, hd, stps) ==
    [input |-> inp, init_state |-> st, init_head_loc |-> hd, steps |-> stps]

Records(o) == o \in {"run_and_record", "run_with_halt_setting_and_record"}

\* The operation that differs from o only in returning a Recording or not.
Sibling(o) ==
    CASE o = "run" -> "run_and_record"
      [] o = "run_and_record" -> "run"
      [] o = "run_with_halt_setting" -> "run_with_halt_setting_and_record"
      [] o = "run_with_halt_setting_and_record" -> "run_with_halt_setting"

Unset == [tag |-> "Unset"]

\* What every call on pair c does to the caller's and the history variables:
\* the results of earlier calls on c, and on the clone made from c, are dropped.
Enter(c, o, hs) ==
    /\ cur' = c
    /\ op' = o
    /\ halt_setting' = hs
    /\ symbol' = 0
    /\ output' = Unset
    /\ rec' = [p \in Pairs |-> IF p >= c THEN None ELSE rec[p]]
    /\ hist' = [p \in Pairs |-> IF p >= c THEN <<>> ELSE hist[p]]
    /\ UNCHANGED <<overflow_checks, state_table, built, probe, tcall, written>>

\* run: control enters the loop at line 58.
run(c) ==
    /\ Enter(c, "run", NoForcedHalt)
    /\ pc' = "lookup"
    /\ step_num' = 0 /\ start' = 0 /\ steps' = <<>> /\ input' = <<>>
    /\ init_state' = 0 /\ init_head_loc' = 0
    /\ UNCHANGED now

\* run_and_record: lines 75-78, then the loop at line 81.
run_and_record(c) ==
    /\ Enter(c, "run_and_record", NoForcedHalt)
    /\ input' = tape[c]
    /\ init_state' = m[c].state
    /\ init_head_loc' = m[c].head_loc
    /\ steps' = <<>>
    /\ pc' = "lookup"
    /\ step_num' = 0 /\ start' = 0
    /\ UNCHANGED now

\* run_with_halt_setting: NoForcedHalt hands over to run (lines 107-110);
\* otherwise lines 112-113, then the loop at line 116.
run_with_halt_setting(c, hs) ==
    /\ Enter(c, "run_with_halt_setting", hs)
    /\ input' = <<>> /\ init_state' = 0 /\ init_head_loc' = 0 /\ steps' = <<>>
    /\ step_num' = 0
    /\ IF hs = NoForcedHalt
       THEN pc' = "lookup" /\ start' = 0
       ELSE pc' = "check" /\ start' = now
    /\ UNCHANGED now

\* run_with_halt_setting_and_record: lines 146-149; NoForcedHalt hands over
\* to run_and_record (lines 151-153), which takes its own clones of the
\* same values; otherwise lines 155-156, then the loop at line 159.
run_with_halt_setting_and_record(c, hs) ==
    /\ Enter(c, "run_with_halt_setting_and_record", hs)
    /\ input' = tape[c]
    /\ init_state' = m[c].state
    /\ init_head_loc' = m[c].head_loc
    /\ steps' = <<>>
    /\ step_num' = 0
    /\ IF hs = NoForcedHalt
       THEN pc' = "lookup" /\ start' = 0
       ELSE pc' = "check" /\ start' = now
    /\ UNCHANGED now

\* The call of operation o on pair c.
Invoke(c, o, hs) ==
    CASE o = "run" -> run(c)
      [] o = "run_and_record" -> run_and_record(c)
      [] o = "run_with_halt_setting" -> run_with_halt_setting(c, hs)
      [] o = "run_with_halt_setting_and_record" ->
             run_with_halt_setting_and_record(c, hs)

\* The configuration of pair c: what a run reads and changes.
Config(c) == [tape |-> tape[c], state |-> m[c].state, head_loc |-> m[c].head_loc]

\* The caller, before a run call on pair 1, clones the machine and the tape
\* into pair 2 (TuringMachine and Tape derive Clone).
Begin ==
    /\ pc = "idle"
    /\ calls < MaxCalls
    /\ calls' = calls + 1
    /\ m' = [m EXCEPT ![2] = m[1]]
    /\ tape' = [tape EXCEPT ![2] = tape[1]]
    /\ last' = [last EXCEPT ![2] = last[1]]
    /\ entry' = Config(1)
    /\ played' = <<>>
    /\ UNCHANGED <<kept, chaitin>>

CallRun == Begin /\ run(1)

CallRunAndRecord == Begin /\ run_and_record(1)

CallRunWithHaltSetting ==
    \E hs \in HaltSettings : Begin /\ run_with_halt_setting(1, hs)

CallRunWithHaltSettingAndRecord ==
    \E hs \in HaltSettings : Begin /\ run_with_halt_setting_and_record(1, hs)

\* Once the call on pair 1 has returned, the caller makes the sibling call,
\* with the same halt setting, on the clone.
CallSibling ==
    /\ pc = "returned"
    /\ cur = 1
    /\ Invoke(2, Sibling(op), halt_setting)
    /\ UNCHANGED <<m, tape, calls, played, entry, last, kept, chaitin>>

\* Both calls have returned: the caller goes on.
Finish ==
    /\ pc = "returned"
    /\ cur = 2
    /\ pc' = "idle"
    /\ cur' = 1
    /\ UNCHANGED <<overflow_checks, m, tape, op, halt_setting, calls, step_num,
                   start, now, symbol, output, steps, input, init_state,
                   init_head_loc, rec, played, entry, hist, last, state_table,
                   built, probe, tcall, written, kept, chaitin>>

\* machine.reset() on machine 1
Reset ==
    /\ pc = "idle"
    /\ m' = [m EXCEPT ![1] = reset(@)]
    /\ last' = [last EXCEPT ![1] = None]
    /\ UNCHANGED <<overflow_checks, tape, cur, pc, op, halt_setting, calls,
                   step_num, start, now, symbol, output, steps, input,
                   init_state, init_head_loc, rec, played, entry, hist,
                   state_table, built, probe, tcall, written, kept, chaitin>>

\* Where control goes after a step: the loops of run and run_and_record begin
\* with the lookup, the two other loops with the halt check.
LoopHead ==
    IF op \in {"run_with_halt_setting", "run_with_halt_setting_and_record"}
       /\ halt_setting # NoForcedHalt
    THEN "check" ELSE "lookup"

\* Lines 117-122 and 160-165: the step bound.
CheckSteps ==
    /\ pc = "check"
    /\ halt_setting.kind = "AfterSteps"
    /\ IF steps_exhausted(step_num, halt_setting.n)
       THEN pc' = "exit" /\ UNCHANGED step_num
       ELSE pc' = "lookup" /\ step_num' = step_num + 1
    /\ UNCHANGED <<overflow_checks, m, tape, cur, op, halt_setting, calls,
                   start, now, symbol, output, steps, input, init_state,
                   init_head_loc, rec, played, entry, hist, last, state_table,
                   built, probe, tcall, written, kept, chaitin>>

\* Lines 123-127 and 166-170: the time bound.  The clock is read; it has
\* stood still or advanced, by any amount, since it was last read.
CheckDuration ==
    /\ pc = "check"
    /\ halt_setting.kind = "AfterDuration"
    /\ \E t \in now..MaxClock :
          /\ now' = t
          /\ pc' = IF duration_elapsed(start, t, halt_setting.n)
                   THEN "exit" ELSE "lookup"
    /\ UNCHANGED <<overflow_checks, m, tape, cur, op, halt_setting, calls,
                   step_num, start, symbol, output, steps, input, init_state,
                   init_head_loc, rec, played, entry, hist, last, state_table,
                   built, probe, tcall, written, kept, chaitin>>

\* looked_up, wrong: the lookup is made for a blank, whatever the head reads.
looked_up_blank ==
    TransitionFn_run(m[cur].transition_fn, m[cur].state, 0, overflow_checks)

\* self.transition_fn.run(self.state, tape.symbol_at_n(self.head_loc))
looked_up ==
    TransitionFn_run(m[cur].transition_fn, m[cur].state,
                     symbol_at_n(tape[cur], m[cur].head_loc), overflow_checks)

\* Lines 59-60, 82-83, 129-130, 172-173: read the symbol under the head and
\* look the transition up.  No match leaves the loop; an overflow in the
\* hasher panics.
Lookup ==
    /\ pc = "lookup"
    /\ \E o \in {looked_up} :
          /\ o.tag # "Some" \/ Len(hist[cur]) < MaxSteps
          /\ output' = o
          /\ pc' = IF o.tag = "Some" THEN "set_state"
                   ELSE IF o.tag = "None" THEN "exit"
                   ELSE "panicked"
    /\ symbol' = symbol_at_n(tape[cur], m[cur].head_loc)
    /\ UNCHANGED <<overflow_checks, m, tape, cur, op, halt_setting, calls,
                   step_num, start, now, steps, input, init_state,
                   init_head_loc, rec, played, entry, hist, last, state_table,
                   built, probe, tcall, written, kept, chaitin>>

\* Lines 61, 84, 131, 174: self.state = output.0
SetState ==
    /\ pc = "set_state"
    /\ m' = [m EXCEPT ![cur] = set_state(@, output.v)]
    /\ last' = [last EXCEPT
                  ![cur] = Some([out |-> output.v, at |-> m[cur].head_loc])]
    /\ pc' = "write"
    /\ UNCHANGED <<overflow_checks, tape, cur, op, halt_setting, calls,
                   step_num, start, now, symbol, output, steps, input,
                   init_state, init_head_loc, rec, played, entry, hist,
                   state_table, built, probe, tcall, written, kept, chaitin>>

\* WriteTape, wrong: a blank is not written.
WriteTape_skips_blank ==
    /\ pc = "write"
    /\ tape' = IF output.v[2] = 0 THEN tape
               ELSE [tape EXCEPT ![cur] = write(@, m[cur].head_loc, output.v[2])]
    /\ pc' = "move"
    /\ UNCHANGED <<overflow_checks, m, cur, op, halt_setting, calls, step_num,
                   start, now, symbol, output, steps, input, init_state,
                   init_head_loc, rec, played, entry, hist, last, state_table,
                   built, probe, tcall, written, kept, chaitin>>

\* Lines 62, 85, 132, 175: tape.write(self.head_loc, output.1)
WriteTape ==
    /\ pc = "write"
    /\ tape' = [tape EXCEPT ![cur] = write(@, m[cur].head_loc, output.v[2])]
    /\ pc' = "move"
    /\ UNCHANGED <<overflow_checks, m, cur, op, halt_setting, calls, step_num,
                   start, now, symbol, output, steps, input, init_state,
                   init_head_loc, rec, played, entry, hist, last, state_table,
                   built, probe, tcall, written, kept, chaitin>>

\* Lines 63, 86, 133, 176: self.head_loc += output.2 as i64 * 2 - 1
MoveHead ==
    /\ pc = "move"
    /\ m' = [m EXCEPT ![cur] = move_head(@, output.v)]
    /\ hist' = [hist EXCEPT ![cur] =
                  Append(@, [out |-> output.v, at |-> m[cur].head_loc,
                             tape |-> tape[cur], state |-> m[cur].state,
                             head_loc |-> m'[cur].head_loc])]
    /\ pc' = IF Records(op) THEN "push" ELSE LoopHead
    /\ output' = IF Records(op) THEN output ELSE Unset
    /\ UNCHANGED <<overflow_checks, tape, cur, op, halt_setting, calls,
                   step_num, start, now, symbol, steps, input, init_state,
                   init_head_loc, rec, played, entry, last, state_table, built,
                   probe, tcall, written, kept, chaitin>>

\* Lines 88, 178: steps.push(output)
Push ==
    /\ pc = "push"
    /\ steps' = push(steps, output.v)
    /\ output' = Unset
    /\ pc' = LoopHead
    /\ UNCHANGED <<overflow_checks, m, tape, cur, op, halt_setting, calls,
                   step_num, start, now, symbol, input, init_state,
                   init_head_loc, rec, played, entry, hist, last, state_table,
                   built, probe, tcall, written, kept, chaitin>>

\* Return, wrong: the Recording holds the tape as it is at the return.
Return_snapshot_at_return ==
    /\ pc = "exit"
    /\ rec' = [rec EXCEPT ![cur] =
                 IF Records(op)
                 THEN Some(Recording(tape[cur], init_state, init_head_loc, steps))
                 ELSE None]
    /\ pc' = "returned"
    /\ UNCHANGED <<overflow_checks, m, tape, cur, op, halt_setting, calls,
                   step_num, start, now, symbol, output, steps, input,
                   init_state, init_head_loc, played, entry, hist, last,
                   state_table, built, probe, tcall, written, kept, chaitin>>

\* After the loop: run and run_with_halt_setting return nothing, the two
\* others the Recording of lines 95-100 and 185-190.
Return ==
    /\ pc = "exit"
    /\ rec' = [rec EXCEPT ![cur] =
                 IF Records(op)
                 THEN Some(Recording(input, init_state, init_head_loc, steps))
                 ELSE None]
    /\ pc' = "returned"
    /\ UNCHANGED <<overflow_checks, m, tape, cur, op, halt_setting, calls,
                   step_num, start, now, symbol, output, steps, input,
                   init_state, init_head_loc, played, entry, hist, last,
                   state_table, built, probe, tcall, written, kept, chaitin>>

(***************************************************************************)
(* recording.rs                                                            *)
(***************************************************************************)
\* recording_print: the frame shown, as the values it is handed.
recording_print(tp, hd, st, mv) ==
    [tape |-> tp, head_loc |-> hd, state |-> st, head_move |-> mv]

\* play_write, wrong: the write comes after the move.
play_write_after_move(tp, hd, s) ==
    write(tp, hd + ((IF s[3] THEN 1 ELSE 0) * 2 - 1), s[2])

\* tape.write(head_loc, s.1)
play_write(tp, hd, s) == write(tp, hd, s[2])

\* play_head_move, wrong: true moves left.
play_head_move_flipped(s) == 1 - (IF s[3] THEN 1 ELSE 0) * 2

\* head_move = s.2 as i64 * 2 - 1
play_head_move(s) == (IF s[3] THEN 1 ELSE 0) * 2 - 1

\* The loop of play_in_console from entry k of self.steps on (lines 27-42):
\* two frames per entry, one after the write and one after the move.
RECURSIVE play_from(_, _, _, _, _)
play_from(stps, k, tp, hd, st) ==
    IF k > Len(stps) THEN <<>>
    ELSE LET s   == stps[k]
             st2 == s[1]
             tp2 == play_write(tp, hd, s)
             mv  == play_head_move(s)
             hd2 == hd + mv
         IN  <<recording_print(tp2, hd, st2, mv), recording_print(tp2, hd2, st2, 0)>>
                 \o play_from(stps, k + 1, tp2, hd2, st2)

\* Recording::play_in_console: the frames in the order shown.
play_in_console(self) ==
    <<recording_print(self.input, self.init_head_loc, self.init_state, 0)>>
        \o play_from(self.steps, 1, self.input, self.init_head_loc, self.init_state)

\* The caller plays the Recording that one of the two calls returned.
PlayInConsole ==
    /\ pc = "returned"
    /\ cur = 2
    /\ played = <<>>
    /\ \E c \in Pairs :
          /\ IsSome(rec[c])
          /\ played' = play_in_console(rec[c].v)
    /\ UNCHANGED <<overflow_checks, m, tape, cur, pc, op, halt_setting, calls,
                   step_num, start, now, symbol, output, steps, input,
                   init_state, init_head_loc, rec, entry, hist, last,
                   state_table, built, probe, tcall, written, kept, chaitin>>

(***************************************************************************)
(* The machine: a caller that constructs a machine and a tape, runs the    *)
(* machine, resets it, and plays recordings.                               *)
(***************************************************************************)
\* No call on a Tape or on an index function has been made.
NoCall == [fn |-> "none"]

NoTableCall ==
    /\ state_table = <<>>
    /\ built = None
    /\ probe = None

\* chaitin_approx has not been called.
NoChaitin == [called |-> FALSE]

\* No call is running and none has been made.
Quiescent ==
    /\ cur = 1
    /\ op = "none"
    /\ halt_setting = NoForcedHalt
    /\ calls = 0
    /\ step_num = 0
    /\ start = 0
    /\ now = 0
    /\ symbol = 0
    /\ output = Unset
    /\ steps = <<>>
    /\ input = <<>>
    /\ init_state = 0
    /\ init_head_loc = 0
    /\ rec = [c \in Pairs |-> None]
    /\ played = <<>>
    /\ entry = [tape |-> tape[1], state |-> 0, head_loc |-> 0]
    /\ hist = [c \in Pairs |-> <<>>]
    /\ last = [c \in Pairs |-> None]
    /\ tcall = NoCall
    /\ written = <<>>
    /\ kept = <<>>

\* TuringMachine::new(TransitionFn::new(&table)) and Tape::new(inp), for the
\* tables that TransitionFn::new accepts, and their clones.
Init ==
    /\ overflow_checks \in BOOLEAN
    /\ \E table \in Tables, inp \in Inputs :
          LET tf == TransitionFn_new(table, overflow_checks)
          IN  /\ tf.ok
              /\ m = [c \in Pairs |-> TuringMachine_new(tf.map)]
              /\ tape = [c \in Pairs |-> TapeNew(inp)]
    /\ pc = "idle"
    /\ Quiescent
    /\ chaitin = NoChaitin
    /\ NoTableCall

Next ==
    \/ CallRun
    \/ CallRunAndRecord
    \/ CallRunWithHaltSetting
    \/ CallRunWithHaltSettingAndRecord
    \/ CallSibling
    \/ Finish
    \/ Reset
    \/ CheckSteps
    \/ CheckDuration
    \/ Lookup
    \/ SetState
    \/ WriteTape
    \/ MoveHead
    \/ Push
    \/ Return
    \/ PlayInConsole

Spec == Init /\ [][Next]_vars

\* The program is one thread that always executes its next instruction.
FairSpec == Spec /\ WF_vars(Next)

(***************************************************************************)
(* The transition table alone: a caller that builds a TransitionFn from a  *)
(* state table and looks keys up in it.                                    *)
(***************************************************************************)
KeysTF == {<<0, 0>>, <<1, 0>>, <<BigValue, 0>>}

ValuesTF == {<<1, 1, TRUE>>, <<0, 2, FALSE>>}

ProbeKeys == KeysTF \cup {<<0, 1>>, <<BigValue, 1>>}

\* The state tables of at most MaxPairs pairs.
StateTables ==
    UNION {[1..n -> KeysTF \X ValuesTF] : n \in 0..MaxPairs}

InitTF ==
    /\ overflow_checks \in BOOLEAN
    /\ state_table \in StateTables
    /\ built = None
    /\ probe = None
    /\ pc = "tf_start"
    /\ m = [c \in Pairs |-> TuringMachine_new({})]
    /\ tape = [c \in Pairs |-> <<>>]
    /\ Quiescent
    /\ chaitin = NoChaitin

\* TransitionFn::new(&state_table)
TfNew ==
    /\ pc = "tf_start"
    /\ built' = TransitionFn_new(state_table, overflow_checks)
    /\ pc' = IF built'.ok THEN "tf_built" ELSE "panicked"
    /\ UNCHANGED <<overflow_checks, m, tape, cur, op, halt_setting, calls,
                   step_num, start, now, symbol, output, steps, input,
                   init_state, init_head_loc, rec, played, entry, hist, last,
                   state_table, probe, tcall, written, kept, chaitin>>

\* trans_fn.run(state, symbol) on the table built
TfRun ==
    /\ pc = "tf_built"
    /\ \E key \in ProbeKeys :
          LET r == TransitionFn_run(built.map, key[1], key[2], overflow_checks)
          IN  /\ probe' = [key |-> key, result |-> r]
              /\ pc' = IF r.tag = "Panic" THEN "panicked" ELSE "tf_built"
    /\ UNCHANGED <<overflow_checks, m, tape, cur, op, halt_setting, calls,
                   step_num, start, now, symbol, output, steps, input,
                   init_state, init_head_loc, rec, played, entry, hist, last,
                   state_table, built, tcall, written, kept, chaitin>>

NextTF == TfNew \/ TfRun

SpecTF == InitTF /\ [][NextTF]_vars

(***************************************************************************)
(* The index functions alone: a caller that applies i64_to_idx to a        *)
(* location and idx_to_i64 to a vector index (test_i64_to_idx,             *)
(* test_idx_to_i64).                                                       *)
(***************************************************************************)
\* Every i64: symbol_at_n is public and hands any location to i64_to_idx.
I64s == MinI64..MaxI64

\* The indexes of a Vec<u64>, which holds at most isize::MAX / 8 elements:
\* idx_to_i64 is applied to the indexes of raw_symbols only.
VecIndexes == 0..(MaxI64 \div 8)

InitIdx ==
    /\ overflow_checks \in BOOLEAN
    /\ pc = "idx_idle"
    /\ m = [c \in Pairs |-> TuringMachine_new({})]
    /\ tape = [c \in Pairs |-> <<>>]
    /\ Quiescent
    /\ chaitin = NoChaitin
    /\ NoTableCall

\* i64_to_idx(int)
CallI64ToIdx ==
    /\ pc = "idx_idle"
    /\ \E int \in I64s :
          /\ tcall' = [fn |-> "i64_to_idx", arg |-> int, ret |-> i64_to_idx(int)]
          /\ pc' = IF tcall'.ret = Overflow THEN "panicked" ELSE "idx_idle"
    /\ UNCHANGED <<overflow_checks, m, tape, cur, op, halt_setting, calls,
                   step_num, start, now, symbol, output, steps, input,
                   init_state, init_head_loc, rec, played, entry, hist, last,
                   state_table, built, probe, written, kept, chaitin>>

\* idx_to_i64(idx)
CallIdxToI64 ==
    /\ pc = "idx_idle"
    /\ \E idx \in VecIndexes :
          tcall' = [fn |-> "idx_to_i64", arg |-> idx, ret |-> idx_to_i64(idx)]
    /\ UNCHANGED <<overflow_checks, m, tape, cur, pc, op, halt_setting, calls,
                   step_num, start, now, symbol, output, steps, input,
                   init_state, init_head_loc, rec, played, entry, hist, last,
                   state_table, built, probe, written, kept, chaitin>>

NextIdx == CallI64ToIdx \/ CallIdxToI64

SpecIdx == InitIdx /\ [][NextIdx]_vars

(***************************************************************************)
(* The tape alone: a caller that holds tape[1] = Tape::default(),          *)
(* constructs tape[2] from an input, then writes to tape[1] (as the        *)
(* crate's run operations do), reads it and compares it with tape[2].      *)
(***************************************************************************)
\* At most MaxWrites writes are made to tape[1].
MaxWrites == 2

\* The locations written: a run writes at the head, which starts at 0 and
\* moves by one per step.
WritePositions == {-2, -1, 0, 1}

Alphabet == {0, 1, 2}

\* The least location whose index arithmetic leaves the i64.
FarLocation == (MaxI64 + 1) \div 4

\* The locations read: those written, two the vector never covers, and
\* locations whose index arithmetic leaves the i64.
ReadPositions ==
    WritePositions \cup {2, 3}
        \cup {MinI64, -FarLocation, FarLocation, 2 * FarLocation,
              2 * FarLocation + 1, MaxI64}

TapeInputs ==
    {<<>>, <<1>>, <<0, 1>>, <<1, 0>>, <<1, 2>>, <<2, 1>>, <<0, 1, 2, 0>>}

Capacities == {0, 1, 2, 3, 7, Word - 1}

\* Tape::default()
InitTape ==
    /\ overflow_checks \in BOOLEAN
    /\ pc = "tape_start"
    /\ m = [c \in Pairs |-> TuringMachine_new({})]
    /\ tape = [c \in Pairs |-> <<>>]
    /\ Quiescent
    /\ chaitin = NoChaitin
    /\ NoTableCall

\* tape[1].write(n, symbol)
TapeWrite ==
    /\ pc = "tape_idle"
    /\ Len(written) < MaxWrites
    /\ \E n \in WritePositions, sym \in Alphabet :
          /\ tape' = [tape EXCEPT ![1] = write(@, n, sym)]
          /\ written' = Append(written, <<n, sym>>)
          /\ tcall' = [fn |-> "write", n |-> n, symbol |-> sym,
                       before |-> tape[1]]
    /\ UNCHANGED <<overflow_checks, m, cur, pc, op, halt_setting, calls,
                   step_num, start, now, symbol, output, steps, input,
                   init_state, init_head_loc, rec, played, entry, hist, last,
                   state_table, built, probe, kept, chaitin>>

\* tape[1].symbol_at_n(n)
TapeSymbolAtN ==
    /\ pc = "tape_idle"
    /\ \E n \in ReadPositions :
          /\ tcall' = [fn |-> "symbol_at_n", arg |-> n,
                       ret |-> symbol_at_n(tape[1], n)]
          /\ pc' = IF tcall'.ret = Overflow THEN "panicked" ELSE "tape_idle"
    /\ UNCHANGED <<overflow_checks, m, tape, cur, op, halt_setting, calls,
                   step_num, start, now, symbol, output, steps, input,
                   init_state, init_head_loc, rec, played, entry, hist, last,
                   state_table, built, probe, written, kept, chaitin>>

\* tape[1].symbols()
TapeSymbols ==
    /\ pc = "tape_idle"
    /\ tcall' = [fn |-> "symbols", ret |-> symbols(tape[1])]
    /\ UNCHANGED <<overflow_checks, m, tape, cur, pc, op, halt_setting, calls,
                   step_num, start, now, symbol, output, steps, input,
                   init_state, init_head_loc, rec, played, entry, hist, last,
                   state_table, built, probe, written, kept, chaitin>>

\* tape[1].symbol(sym)
TapeSymbol ==
    /\ pc = "tape_idle"
    /\ \E sym \in Alphabet :
          tcall' = [fn |-> "symbol", arg |-> sym,
                    ret |-> Tape_symbol(tape[1], sym)]
    /\ UNCHANGED <<overflow_checks, m, tape, cur, pc, op, halt_setting, calls,
                   step_num, start, now, symbol, output, steps, input,
                   init_state, init_head_loc, rec, played, entry, hist, last,
                   state_table, built, probe, written, kept, chaitin>>

\* tape[2] = Tape::new(inp)
TapeNewCall ==
    /\ pc = "tape_start"
    /\ \E inp \in TapeInputs :
          /\ tape' = [tape EXCEPT ![2] = TapeNew(inp)]
          /\ tcall' = [fn |-> "new", arg |-> inp]
    /\ pc' = "tape_idle"
    /\ UNCHANGED <<overflow_checks, m, cur, op, halt_setting, calls,
                   step_num, start, now, symbol, output, steps, input,
                   init_state, init_head_loc, rec, played, entry, hist, last,
                   state_table, built, probe, written, kept, chaitin>>

\* tape[2] = Tape::with_capacity(inp, capacity)
TapeWithCapacity ==
    /\ pc = "tape_start"
    /\ \E inp \in TapeInputs, capacity \in Capacities :
          \E made \in {with_capacity(inp, capacity)} :
             /\ tape' = IF made.panicked THEN tape
                        ELSE [tape EXCEPT ![2] = made.tape]
             /\ pc' = IF made.panicked THEN "panicked" ELSE "tape_idle"
             /\ tcall' = [fn |-> "with_capacity", arg |-> inp,
                          capacity |-> capacity, panicked |-> made.panicked]
    /\ UNCHANGED <<overflow_checks, m, cur, op, halt_setting, calls,
                   step_num, start, now, symbol, output, steps, input,
                   init_state, init_head_loc, rec, played, entry, hist, last,
                   state_table, built, probe, written, kept, chaitin>>

\* tape[1] == tape[2]
TapeEqCall ==
    /\ pc = "tape_idle"
    /\ tcall' = [fn |-> "eq", ret |-> TapeEq(tape[1], tape[2])]
    /\ UNCHANGED <<overflow_checks, m, tape, cur, pc, op, halt_setting, calls,
                   step_num, start, now, symbol, output, steps, input,
                   init_state, init_head_loc, rec, played, entry, hist, last,
                   state_table, built, probe, written, kept, chaitin>>

NextTape ==
    \/ TapeWrite
    \/ TapeSymbolAtN
    \/ TapeSymbols
    \/ TapeSymbol
    \/ TapeNewCall
    \/ TapeWithCapacity
    \/ TapeEqCall

SpecTape == InitTape /\ [][NextTape]_vars

(***************************************************************************)
(* Consecutive step-bounded runs: a caller that makes two recording calls  *)
(* bounded by steps on pair 1, without reset and without touching the      *)
(* tape in between, and then one call on pair 2, which still is as pair 1  *)
(* was constructed, bounded by the sum of the two bounds.                  *)
(***************************************************************************)
\* The largest step bound of the two consecutive calls.
MaxSplit == 3

SplitSteps == 0..MaxSplit

\* What the caller keeps of the call on pair 1 that has returned.
Keep == Append(kept, [n |-> halt_setting.n, rec |-> rec[1].v])

\* machine.run_with_halt_setting_and_record(&mut tape, AfterSteps(n))
SplitFirst ==
    /\ pc = "idle"
    /\ calls = 0
    /\ calls' = 1
    /\ entry' = Config(1)
    /\ \E n \in SplitSteps :
          run_with_halt_setting_and_record(1, AfterSteps(n))
    /\ UNCHANGED <<m, tape, played, last, kept, chaitin>>

\* The same call again on the same machine and tape, with its own bound.
SplitSecond ==
    /\ pc = "returned"
    /\ cur = 1
    /\ calls = 1
    /\ calls' = 2
    /\ kept' = Keep
    /\ \E n \in SplitSteps :
          run_with_halt_setting_and_record(1, AfterSteps(n))
    /\ UNCHANGED <<m, tape, played, entry, last, chaitin>>

\* The single call on the clone of the start, bounded by the sum.
SplitWhole ==
    /\ pc = "returned"
    /\ cur = 1
    /\ calls = 2
    /\ kept' = Keep
    /\ run_with_halt_setting_and_record(2, AfterSteps(kept[1].n + halt_setting.n))
    /\ UNCHANGED <<m, tape, calls, played, entry, last, chaitin>>

NextSplit ==
    \/ SplitFirst
    \/ SplitSecond
    \/ SplitWhole
    \/ CheckSteps
    \/ Lookup
    \/ SetState
    \/ WriteTape
    \/ MoveHead
    \/ Push
    \/ Return

SpecSplit == Init /\ [][NextSplit]_vars

(***************************************************************************)
(* chaitin_approx(num_states, num_symbols, halt_setting): every table of   *)
(* TransitionFn::enumerate is run from state 0 on Tape::default(), and     *)
(* counted by the state the run leaves.  Pair 1 holds the machine and the  *)
(* tape of the running iteration.                                          *)
(***************************************************************************)
\* enumerate is called for tables of at most MaxKeys keys.
MaxKeys == 2

\* The arguments num_states and num_symbols.
Sizes == {sz \in (0..MaxKeys) \X (0..MaxKeys) : sz[1] * sz[2] <= MaxKeys}

InitChaitin ==
    /\ overflow_checks \in BOOLEAN
    /\ pc = "chaitin_start"
    /\ m = [c \in Pairs |-> TuringMachine_new({})]
    /\ tape = [c \in Pairs |-> <<>>]
    /\ Quiescent
    /\ NoTableCall
    /\ \E sz \in Sizes, hs \in HaltSettings :
          chaitin = [num_states |-> sz[1], num_symbols |-> sz[2],
                     halt_setting |-> hs, trans_fns |-> <<>>, t |-> 0,
                     halted |-> 0, undecided |-> 0, counted |-> "none",
                     result |-> None]

\* Line 195: let trans_fns = TransitionFn::enumerate(num_states, num_symbols)
ChaitinEnumerate ==
    /\ pc = "chaitin_start"
    /\ \E fns \in {enumerate(chaitin.num_states, chaitin.num_symbols,
                              overflow_checks)} :
          IF \A f \in 1..Len(fns) : fns[f].ok
          THEN /\ chaitin' = [chaitin EXCEPT
                                !.trans_fns = [f \in 1..Len(fns) |-> fns[f].map]]
               /\ pc' = "chaitin_loop"
          ELSE /\ pc' = "panicked"
               /\ UNCHANGED chaitin
    /\ UNCHANGED <<overflow_checks, m, tape, cur, op, halt_setting, calls,
                   step_num, start, now, symbol, output, steps, input,
                   init_state, init_head_loc, rec, played, entry, hist, last,
                   state_table, built, probe, tcall, written, kept>>

\* Lines 199-202: let mut tm = TuringMachine::new(trans_fns[t].clone());
\* tm.run_with_halt_setting(&mut Tape::default(), halt_setting)
ChaitinRun ==
    /\ pc = "chaitin_loop"
    /\ chaitin.t < Len(chaitin.trans_fns)
    /\ m' = [m EXCEPT ![1] = TuringMachine_new(chaitin.trans_fns[chaitin.t + 1])]
    /\ tape' = [tape EXCEPT ![1] = <<>>]
    /\ last' = [last EXCEPT ![1] = None]
    /\ entry' = [tape |-> <<>>, state |-> 0, head_loc |-> 0]
    /\ run_with_halt_setting(1, chaitin.halt_setting)
    /\ UNCHANGED <<calls, played, kept, chaitin>>

\* tm.state == num_states as u64
counts_as_halted(tm, num_states) == tm.state = num_states

\* Lines 204-209: the machine is counted by its state.
ChaitinCount ==
    /\ pc = "returned"
    /\ chaitin' =
          IF counts_as_halted(m[1], chaitin.num_states)
          THEN [chaitin EXCEPT !.halted = @ + 1, !.t = @ + 1,
                               !.counted = "halted"]
          ELSE [chaitin EXCEPT !.undecided = @ + 1, !.t = @ + 1,
                               !.counted = "undecided"]
    /\ pc' = "chaitin_loop"
    /\ UNCHANGED <<overflow_checks, m, tape, cur, op, halt_setting, calls,
                   step_num, start, now, symbol, output, steps, input,
                   init_state, init_head_loc, rec, played, entry, hist, last,
                   state_table, built, probe, tcall, written, kept>>

\* Line 212: the two fractions, each as <<numerator, denominator>>.
ChaitinReturn ==
    /\ pc = "chaitin_loop"
    /\ chaitin.t = Len(chaitin.trans_fns)
    /\ chaitin' = [chaitin EXCEPT
                     !.result = Some(<<<<chaitin.halted, Len(chaitin.trans_fns)>>,
                                       <<chaitin.undecided, Len(chaitin.trans_fns)>>>>)]
    /\ pc' = "chaitin_done"
    /\ UNCHANGED <<overflow_checks, m, tape, cur, op, halt_setting, calls,
                   step_num, start, now, symbol, output, steps, input,
                   init_state, init_head_loc, rec, played, entry, hist, last,
                   state_table, built, probe, tcall, written, kept>>

NextChaitin ==
    \/ ChaitinEnumerate
    \/ ChaitinRun
    \/ ChaitinCount
    \/ ChaitinReturn
    \/ CheckSteps
    \/ CheckDuration
    \/ Lookup
    \/ SetState
    \/ WriteTape
    \/ MoveHead
    \/ Return

SpecChaitin == InitChaitin /\ [][NextChaitin]_vars

(***************************************************************************)
(* Statements.  The operators below read a state table, a configuration or *)
(* a history as the specification describes them; they use none of the     *)
(* hashing.                                                                *)
(***************************************************************************)
\* No key occurs twice in the state table.
DistinctKeys(table) ==
    \A i, j \in 1..Len(table) : i # j => table[i][1] # table[j][1]

\* The triple the state table lists for key, if any.
Associated(table, key) ==
    LET at == {i \in 1..Len(table) : table[i][1] = key}
    IN  IF at = {} THEN None ELSE Some(table[CHOOSE i \in at : TRUE][2])

\* The triple a built table holds for (st, sy), found by the key alone.
Triple(tf, st, sy) ==
    LET found == {e \in tf : e.key = <<st, sy>>}
    IN  IF found = {} THEN None ELSE Some((CHOOSE e \in found : TRUE).value)

\* The triple that applies in configuration c.
TripleAt(tf, c) == Triple(tf, c.state, symbol_at_n(c.tape, c.head_loc))

\* The configuration the specification's step leaves: the state updated, the
\* symbol written at the head, the head moved by one.
SpecStep(tf, c) ==
    LET t == TripleAt(tf, c).v
    IN  [tape |-> write(c.tape, c.head_loc, t[2]), state |-> t[1],
         head_loc |-> IF t[3] THEN c.head_loc + 1 ELSE c.head_loc - 1]

\* The number of steps after which no transition matches, counted up to fuel.
RECURSIVE StepsToHalt(_, _, _)
StepsToHalt(tf, c, fuel) ==
    IF fuel = 0 \/ ~IsSome(TripleAt(tf, c)) THEN 0
    ELSE 1 + StepsToHalt(tf, SpecStep(tf, c), fuel - 1)

\* The configuration that step i of the last call on pair c left.
After(c, i) ==
    IF i = 0 THEN entry
    ELSE [tape |-> hist[c][i].tape, state |-> hist[c][i].state,
          head_loc |-> hist[c][i].head_loc]

\* The configuration left by the last step that the last call on pair c
\* completed.
Boundary(c) == After(c, Len(hist[c]))

\* The positions either tape holds a cell for, and one more on each side.
Positions(tp1, tp2) ==
    LET far == Len(tp1) + Len(tp2) + 1 IN (-far)..far

\* The call on pair cur has left its loop.
LeftLoop == pc \in {"exit", "returned"}

\* The table built from a state table (which holds no oversized key).
Built(table) == TransitionFn_new(table, FALSE).map

\* C1: every applied step of every run operation is the transition the table
\* holds for (state, symbol under the head): the state becomes next_state,
\* write_symbol is stored at the position the head had, no other cell
\* changes, and the head moves by +1 for true and -1 for false; when the
\* lookup finds no triple the run leaves the loop with state, head and tape
\* as they were.
C1_StepFollowsTable ==
    /\ \A c \in Pairs : \A i \in 1..Len(hist[c]) :
          LET before == After(c, i - 1)
              after  == After(c, i)
              t      == TripleAt(m[c].transition_fn, before)
          IN  /\ IsSome(t)
              /\ hist[c][i].out = t.v
              /\ after.state = t.v[1]
              /\ symbol_at_n(after.tape, before.head_loc) = t.v[2]
              /\ \A q \in Positions(before.tape, after.tape) \ {before.head_loc} :
                    symbol_at_n(after.tape, q) = symbol_at_n(before.tape, q)
              /\ after.head_loc = before.head_loc + (IF t.v[3] THEN 1 ELSE -1)
    /\ pc \in {"set_state", "exit"} /\ output.tag \in {"Some", "None"} =>
          output = TripleAt(m[cur].transition_fn, Config(cur))
    /\ LeftLoop /\ output.tag = "None" =>
          /\ ~IsSome(TripleAt(m[cur].transition_fn, Config(cur)))
          /\ Config(cur) = Boundary(cur)

\* C1, witness: a run that applied steps in both directions and then found
\* no transition.
C1_Witness ==
    /\ pc = "returned"
    /\ output.tag = "None"
    /\ \E i, j \in 1..Len(hist[cur]) : hist[cur][i].out[3] /\ ~hist[cur][j].out[3]

\* C2: run_with_halt_setting with AfterSteps(N) applies exactly min(N, k)
\* steps, k being the number of steps after which no transition matches; with
\* N = 0 it writes nothing and leaves tape, state and head as they were.
C2_AfterStepsAppliesMinNK ==
    LeftLoop /\ op = "run_with_halt_setting" /\ halt_setting.kind = "AfterSteps" =>
        LET N == halt_setting.n
            k == StepsToHalt(m[cur].transition_fn, entry, N + 1)
        IN  /\ Len(hist[cur]) = Min(N, k)
            /\ N = 0 => Config(cur) = entry

\* C2, witness: a run stopped by its bound of 2 although a transition
\* still matched.
C2_Witness ==
    /\ pc = "returned"
    /\ op = "run_with_halt_setting"
    /\ halt_setting = AfterSteps(2)
    /\ Len(hist[cur]) = 2
    /\ IsSome(TripleAt(m[cur].transition_fn, Config(cur)))

\* A run_with_halt_setting call with AfterSteps(n) on a machine in state 0 at
\* position 0, holding the table built from table, and a blank tape has left
\* its loop.
FreshBoundedRunDone(table, n) ==
    /\ LeftLoop
    /\ op = "run_with_halt_setting"
    /\ halt_setting = AfterSteps(n)
    /\ entry = [tape |-> <<>>, state |-> 0, head_loc |-> 0]
    /\ m[cur].transition_fn = Built(table)

\* C3, as claimed: with the table {(0,0)->(1,1,right), (1,0)->(0,1,left)}, a
\* fresh machine and a blank tape, a step-bounded run with N = 0 writes
\* nothing, with N = 1 leaves [1] and with N = 7 leaves [1,2,3,1,2,3,1].
C3_AsClaimed ==
    /\ FreshBoundedRunDone(TableTwoRules, 0) => hist[cur] = <<>> /\ tape[cur] = <<>>
    /\ FreshBoundedRunDone(TableTwoRules, 1) => symbols(tape[cur]) = <<1>>
    /\ FreshBoundedRunDone(TableTwoRules, 7) =>
          symbols(tape[cur]) = <<1, 2, 3, 1, 2, 3, 1>>

\* C3, amended: with that table N = 0 writes nothing, N = 1 leaves [1] and
\* N = 7 leaves [1,1], the machine finding no transition after two steps;
\* [1,2,3,1,2,3,1] is what N = 7 leaves with the table
\* {(0,0)->(1,1,right), (1,0)->(2,2,right), (2,0)->(0,3,right)}.
C3_TwoRulesHaltAfterTwoSteps ==
    /\ FreshBoundedRunDone(TableTwoRules, 0) => hist[cur] = <<>> /\ tape[cur] = <<>>
    /\ FreshBoundedRunDone(TableTwoRules, 1) => symbols(tape[cur]) = <<1>>
    /\ FreshBoundedRunDone(TableTwoRules, 7) =>
          Len(hist[cur]) = 2 /\ symbols(tape[cur]) = <<1, 1>>
    /\ FreshBoundedRunDone(TableRightCycle, 7) =>
          symbols(tape[cur]) = <<1, 2, 3, 1, 2, 3, 1>>

\* C3, witness: the run with N = 7 and the two-rule table has returned.
C3_Witness ==
    /\ pc = "returned"
    /\ FreshBoundedRunDone(TableTwoRules, 7)
    /\ output.tag = "None"

\* The running call is unbounded.
Unbounded == op \in {"run", "run_and_record"} \/ halt_setting = NoForcedHalt

\* An unbounded run on a machine in state 0 at position 0, holding the table
\* built from TableFourRules, and a blank tape.
FourRulesRun ==
    /\ Unbounded
    /\ entry.state = 0
    /\ entry.head_loc = 0
    /\ TapeEq(entry.tape, <<>>)
    /\ m[cur].transition_fn = Built(TableFourRules)

\* Such a run is about to make its first lookup.
FourRulesRunStarts == FourRulesRun /\ pc = "lookup" /\ hist[cur] = <<>>

\* Such a run has returned for lack of a transition, after four steps, with
\* 2 at positions 0 and 1, in state 0 at position 0.
FourRulesRunDone ==
    /\ FourRulesRun
    /\ pc = "returned"
    /\ output.tag = "None"
    /\ Len(hist[cur]) = 4
    /\ symbols(tape[cur]) = <<2, 2>>
    /\ symbol_at_n(tape[cur], 0) = 2
    /\ symbol_at_n(tape[cur], 1) = 2
    /\ m[cur].state = 0
    /\ m[cur].head_loc = 0

\* C4: with the table {(0,0)->(1,1,right), (1,0)->(0,1,left),
\* (0,1)->(1,2,right), (1,1)->(0,2,left)}, an unbounded run of a fresh machine
\* on a blank tape terminates after finitely many steps because no transition
\* matches, and every such run ends with the same tape, state and head.
C4_FourRulesRunTerminates ==
    /\ FourRulesRunStarts ~> FourRulesRunDone
    /\ [](FourRulesRun /\ pc = "returned" => FourRulesRunDone)

\* C4, witness: such a run, made by run, has returned.
C4_Witness == FourRulesRunDone /\ op = "run"

\* Both calls of a pair of sibling calls have returned.
BothReturned == pc = "returned" /\ cur = 2

\* The pair whose call returned a Recording, and the other one.
Recorded == CHOOSE c \in Pairs : IsSome(rec[c])

Unrecorded == CHOOSE c \in Pairs : ~IsSome(rec[c])

\* C5: for a halting policy that is unbounded or AfterSteps(N), the tape left
\* by run_with_halt_setting equals the tape that replaying the Recording of
\* run_with_halt_setting_and_record, started from the same tape, state and
\* head, ends with; and both calls leave the same tape, state and head.
C5_RecordingChangesNothing ==
    BothReturned
    /\ op \in {"run_with_halt_setting", "run_with_halt_setting_and_record"}
    /\ halt_setting.kind # "AfterDuration" =>
        /\ tape[1] = tape[2]
        /\ m[1].state = m[2].state
        /\ m[1].head_loc = m[2].head_loc
        /\ played # <<>> => played[Len(played)].tape = tape[Unrecorded]

\* C5, witness: a bounded pair of calls that started in a state other than 0
\* and applied steps, its Recording replayed.
C5_Witness ==
    /\ BothReturned
    /\ op \in {"run_with_halt_setting", "run_with_halt_setting_and_record"}
    /\ halt_setting.kind = "AfterSteps"
    /\ entry.state # 0
    /\ Len(played) >= 5
    /\ tape[Unrecorded] # entry.tape

\* C6: replaying a Recording from its snapshot tape, initial state and initial
\* head yields, after the i-th entry, the tape, state and head that the
\* recorded run had after its i-th applied step, for every i.
C6_ReplayReproducesRun ==
    played # <<>> =>
        /\ Len(played) = 1 + 2 * Len(hist[Recorded])
        /\ \A i \in 0..Len(hist[Recorded]) :
              LET frame == played[1 + 2 * i]
                  then  == After(Recorded, i)
              IN  /\ frame.tape = then.tape
                  /\ frame.state = then.state
                  /\ frame.head_loc = then.head_loc

\* C6, witness: the replay of a Recording of at least three steps, made by
\* run_and_record, that moved in both directions.
C6_Witness ==
    /\ Len(played) >= 7
    /\ "run_and_record" \in {op, Sibling(op)}
    /\ \E i, j \in 1..Len(hist[Recorded]) :
          hist[Recorded][i].out[3] /\ ~hist[Recorded][j].out[3]

\* C7: the Recording returned by run_and_record and by
\* run_with_halt_setting_and_record holds the tape as it was before the run,
\* the machine's state and head at the call, and as its step log the output
\* triples of the transitions applied, in order; the log is empty when the
\* bound is 0 or the first lookup finds no transition.
C7_RecordingHoldsEntryAndSteps ==
    \A c \in Pairs : IsSome(rec[c]) =>
        LET r == rec[c].v
        IN  /\ r.input = entry.tape
            /\ r.init_state = entry.state
            /\ r.init_head_loc = entry.head_loc
            /\ Len(r.steps) = Len(hist[c])
            /\ \A i \in 1..Len(hist[c]) : r.steps[i] = hist[c][i].out
            /\ (c = cur /\ halt_setting = AfterSteps(0)) => r.steps = <<>>
            /\ ~IsSome(TripleAt(m[c].transition_fn, entry)) => r.steps = <<>>

\* C7, witness: a Recording of at least two steps of a run that started in a
\* state other than 0 and changed the tape.
C7_Witness ==
    /\ pc = "returned"
    /\ IsSome(rec[cur])
    /\ Len(rec[cur].v.steps) >= 2
    /\ entry.state # 0
    /\ tape[cur] # entry.tape

\* The first lookup of a call on machine 1 to which no transition was applied
\* since its construction or its last reset has been made.
FirstLookupSinceReset ==
    /\ cur = 1
    /\ last[1] = None
    /\ hist[1] = <<>>
    /\ pc \in {"set_state", "exit", "panicked"}
    /\ output # Unset

\* C8: reset sets the machine's state and head to 0 and changes neither the
\* transition table nor any tape; a run made after it on a tape that an
\* earlier run wrote starts in state 0 at position 0 and reads what that run
\* left.
C8_ResetRestoresStateAndHead ==
    /\ [][pc = "idle" /\ pc' = "idle" =>
            /\ m'[1].state = 0
            /\ m'[1].head_loc = 0
            /\ m'[1].transition_fn = m[1].transition_fn
            /\ tape' = tape]_vars
    /\ [][pc = "idle" /\ pc' # "idle" => entry'.tape = tape[1] /\ tape'[1] = tape[1]]_vars
    /\ [](FirstLookupSinceReset =>
            /\ entry.state = 0
            /\ entry.head_loc = 0
            /\ symbol = symbol_at_n(entry.tape, 0))

\* C8, witness: the second call, made after a reset, reads at position 0 the
\* symbol 2, which no tape input holds there, and finds no transition.
C8_Witness ==
    /\ FirstLookupSinceReset
    /\ calls = 2
    /\ symbol = 2
    /\ pc = "exit"

\* Machine c is not in the middle of a step.
BetweenSteps(c) == c # cur \/ pc \notin {"write", "move"}

\* C9: state and head are those the last applied transition produced, or 0 and
\* 0 if none was applied since construction or reset; a step changes state,
\* tape cell and head together or not at all; and a step-bounded or
\* time-bounded stop leaves state, head and tape as the last applied step
\* produced them.
C9_StateAndHeadOfLastTransition ==
    /\ \A c \in Pairs : BetweenSteps(c) =>
          IF IsSome(last[c])
          THEN LET t == last[c].v
               IN  /\ m[c].state = t.out[1]
                   /\ m[c].head_loc = t.at + (IF t.out[3] THEN 1 ELSE -1)
                   /\ symbol_at_n(tape[c], t.at) = t.out[2]
          ELSE m[c].state = 0 /\ m[c].head_loc = 0
    /\ pc \in {"check", "lookup", "set_state", "push", "exit", "returned"} =>
          Config(cur) = Boundary(cur)
    /\ LeftLoop /\ output = Unset /\ hist[cur] # <<>> =>
          /\ IsSome(last[cur])
          /\ last[cur].v.out = hist[cur][Len(hist[cur])].out

\* C9, witness: a time-bounded run stopped by its bound after it had applied
\* a step.
C9_Witness ==
    /\ pc = "returned"
    /\ halt_setting.kind = "AfterDuration"
    /\ output = Unset
    /\ hist[cur] # <<>>

\* C10: TransitionFn::new fails for every pair list in which a key occurs more
\* than once and succeeds for every list of pairwise distinct keys; on the
\* table built, a lookup returns the triple listed for a listed key and
\* no match for any other key.
C10_NewFailsExactlyOnDuplicates ==
    pc # "tf_start" =>
        /\ built.ok = DistinctKeys(state_table)
        /\ probe # None => probe.result = Associated(state_table, probe.key)

\* What remains of C10 in a build whose arithmetic wraps.
C10_HoldsWhereArithmeticWraps ==
    ~overflow_checks => C10_NewFailsExactlyOnDuplicates

\* What remains of C10 in every build: duplicate keys are always refused.
C10_DuplicatesAlwaysRefused ==
    pc # "tf_start" /\ ~DistinctKeys(state_table) => ~built.ok

\* The locations for which no operation of i64_to_idx leaves the i64: the
\* largest intermediate value is 4 * |p| + 1.
SupportedPositions == {p \in I64s : 4 * abs(p) + 1 <= MaxI64}

\* The index the specification gives location p.
IndexOf(p) == IF p = 0 THEN 0 ELSE IF p > 0 THEN 2 * p ELSE 2 * abs(p) - 1

\* C11: for every location p in the supported range idx_to_i64(i64_to_idx(p))
\* = p, and for every index i of the backing vector i64_to_idx(idx_to_i64(i))
\* = i; on the supported range the mapping is one-to-one and onto an initial
\* segment of the indexes, with location 0 at index 0.
C11_IndexRoundTrip ==
    /\ tcall.fn = "i64_to_idx" /\ tcall.arg \in SupportedPositions =>
          /\ tcall.ret # Overflow
          /\ idx_to_i64(tcall.ret) = tcall.arg
    /\ tcall.fn = "idx_to_i64" =>
          /\ tcall.ret \in SupportedPositions
          /\ i64_to_idx(tcall.ret) = tcall.arg
    /\ \A p, q \in SupportedPositions : p # q => i64_to_idx(p) # i64_to_idx(q)
    /\ {i64_to_idx(p) : p \in SupportedPositions} =
          0..(Cardinality(SupportedPositions) - 1)
    /\ i64_to_idx(0) = 0 /\ idx_to_i64(0) = 0

\* C11, witness: idx_to_i64 was applied to an odd index above 1, which
\* belongs to a location left of -1.
C11_Witness ==
    /\ tcall.fn = "idx_to_i64"
    /\ tcall.arg > 1
    /\ tcall.arg % 2 = 1
    /\ tcall.ret < -1

\* C19: i64_to_idx maps location 0 to index 0, every p > 0 to 2p and every
\* p < 0 to 2|p| - 1, and no two locations share an index -- for every i64.
C19_EveryPositionHasItsIndex ==
    tcall.fn = "i64_to_idx" =>
        /\ tcall.ret = IndexOf(tcall.arg)
        /\ \A q \in I64s \ {tcall.arg} : i64_to_idx(q) # tcall.ret

\* C19, on the supported range only: there the mapping is as stated, the
\* value of (4|p| + sign(p) - 1) / 2 with the division truncating.
C19_HoldsInSupportedRange ==
    /\ tcall.fn = "i64_to_idx" /\ tcall.arg \in SupportedPositions =>
          /\ tcall.ret = IndexOf(tcall.arg)
          /\ tcall.ret = TruncDiv(4 * abs(tcall.arg) + signum(tcall.arg) - 1, 2)
    /\ \A p, q \in SupportedPositions : p # q => i64_to_idx(p) # i64_to_idx(q)

\* C19, outside the supported range: the call panics where the build checks
\* for overflow.
C19_PanicsOutsideWhereChecked ==
    tcall.fn = "i64_to_idx" /\ tcall.arg \notin SupportedPositions
        /\ overflow_checks => tcall.ret = Overflow

(***************************************************************************)
(* Statements about the tape.                                              *)
(***************************************************************************)
\* The symbol last written at location n according to the log of writes, 0
\* if none was.
LastWritten(log, n) ==
    LET at == {k \in 1..Len(log) : log[k][1] = n}
    IN  IF at = {} THEN 0 ELSE log[CHOOSE k \in at : \A j \in at : j <= k][2]

\* A sequence without its leading zeros, without its trailing zeros.
RECURSIVE StripLeft(_)
StripLeft(seq) ==
    IF seq = <<>> THEN <<>>
    ELSE IF Head(seq) = 0 THEN StripLeft(Tail(seq)) ELSE seq

RECURSIVE StripRight(_)
StripRight(seq) ==
    IF seq = <<>> THEN <<>>
    ELSE IF seq[Len(seq)] = 0 THEN StripRight(SubSeq(seq, 1, Len(seq) - 1))
    ELSE seq

Strip(seq) == StripRight(StripLeft(seq))

Zeros(n) == [k \in 1..n |-> 0]

\* The sequences compared with an input have at most MaxPad zeros on either
\* side of what the two share.
MaxPad == 2

\* The sequences that differ from a by leading and trailing zeros only.
Paddings(a) == {Zeros(i) \o Strip(a) \o Zeros(j) : i, j \in 0..MaxPad}

\* C12: a read returns the symbol most recently written at the location, and
\* 0 for a location never written, whatever the length of the vector; it
\* never fails -- at every location.
C12_ReadReturnsLastWritten ==
    tcall.fn = "symbol_at_n" => tcall.ret = LastWritten(written, tcall.arg)

\* C12, on the supported range only.
C12_HoldsInSupportedRange ==
    tcall.fn = "symbol_at_n" /\ tcall.arg \in SupportedPositions =>
        tcall.ret = LastWritten(written, tcall.arg)

\* C13: tape[1] == tape[2] exactly if symbols() returns the same for both.
C13_EqualIffSameSymbols ==
    tcall.fn = "eq" => (tcall.ret <=> symbols(tape[1]) = symbols(tape[2]))

\* C13, for tapes written at locations 0, 1, 2, ... only (the tapes that
\* Tape::new makes): there == and symbols() agree.
C13_HoldsWithoutNegativeLocations ==
    tcall.fn = "eq" /\ (\A k \in 1..Len(written) : written[k][1] >= 0) =>
        (tcall.ret <=> symbols(tape[1]) = symbols(tape[2]))

\* C14: Tape::new(a) == Tape::new(b) for all a and b that differ by leading
\* and trailing zeros only, Tape::new placing element i at location i.
C14_NewIgnoresOuterZeros ==
    tcall.fn = "new" =>
        /\ \A i \in 1..Len(tcall.arg) :
              symbol_at_n(tape[2], i - 1) = tcall.arg[i]
        /\ \A b \in Paddings(tcall.arg) : TapeEq(tape[2], TapeNew(b))

\* C14, witness: a tape was made from an input with a zero on either side.
C14_Witness ==
    /\ tcall.fn = "new"
    /\ tcall.arg = <<0, 1, 2, 0>>
    /\ <<1, 2>> \in Paddings(tcall.arg)

\* C15: symbols() returns read(lo), ..., read(hi), lo and hi being the lowest
\* and the highest location whose cell holds a non-blank symbol (the last
\* symbol written there is not 0), and the empty sequence when no cell does.
C15_SymbolsSpansHeldCells ==
    tcall.fn = "symbols" =>
        LET held == {p \in WritePositions : LastWritten(written, p) # 0}
            lo   == CHOOSE p \in held : \A q \in held : p <= q
            hi   == CHOOSE p \in held : \A q \in held : p >= q
        IN  IF held = {} THEN tcall.ret = <<>>
            ELSE tcall.ret =
                   [k \in 1..(hi - lo + 1) |-> symbol_at_n(tape[1], lo + k - 1)]

\* C15, witness: symbols() on a tape with blanks between two symbols, the
\* lower one at a negative location.
C15_Witness ==
    /\ tcall.fn = "symbols"
    /\ written = <<<<-2, 1>>, <<1, 2>>>>
    /\ tcall.ret = <<1, 0, 0, 2>>

\* C16: with_capacity(input, c) fails exactly when c < 2 * len(input) - 1,
\* for every input, the empty one included, and otherwise returns a tape
\* with the content of Tape::new(input).
C16_FailsExactlyBelowRequired ==
    tcall.fn = "with_capacity" =>
        /\ tcall.panicked <=> tcall.capacity < 2 * Len(tcall.arg) - 1
        /\ ~tcall.panicked => tape[2] = TapeNew(tcall.arg)

\* C16, for the inputs that are not empty and the capacities that can be
\* reserved.
C16_HoldsForNonEmptyInput ==
    tcall.fn = "with_capacity" /\ tcall.arg # <<>>
        /\ ~reserve_panics(tcall.capacity) =>
        /\ tcall.panicked <=> tcall.capacity < 2 * Len(tcall.arg) - 1
        /\ ~tcall.panicked => tape[2] = TapeNew(tcall.arg)

\* C16, for the empty input: the call panics whatever the capacity.
C16_EmptyInputAlwaysPanics ==
    tcall.fn = "with_capacity" /\ tcall.arg = <<>> => tcall.panicked

\* The running call is bounded by a duration.
Timed == halt_setting.kind = "AfterDuration"

\* C17: under AfterDuration(d) the elapsed time is compared with d before
\* every step attempt; a step is attempted only if the check just before it
\* found elapsed < d; a check that finds elapsed >= d ends the run with no
\* further attempt (so d = 0 applies no step); a lookup that finds no
\* transition ends the run as well.
C17_DurationCheckedBeforeEveryStep ==
    /\ [](Timed /\ pc \in {"lookup", "set_state", "write", "move", "push"} =>
            now - start < halt_setting.n)
    /\ [](Timed /\ halt_setting.n = 0 => Len(hist[cur]) = 0)
    /\ [][Timed' /\ pc' = "lookup" => pc = "check"]_vars
    /\ [][Timed /\ pc = "check" /\ now' - start >= halt_setting.n =>
            pc' = "exit"]_vars
    /\ [][Timed /\ pc = "lookup"
            /\ ~IsSome(TripleAt(m[cur].transition_fn, Config(cur))) =>
            pc' \in {"exit", "panicked"}]_vars

\* C17, witness: a run bounded by a duration of 1 applied a step and was then
\* ended by the check although a transition still matched.
C17_Witness ==
    /\ Timed
    /\ halt_setting.n = 1
    /\ pc = "returned"
    /\ Len(hist[cur]) >= 1
    /\ now - start >= 1
    /\ IsSome(TripleAt(m[cur].transition_fn, Config(cur)))

\* C18: symbol(s) returns locations in strictly ascending order, each of
\* them reads s, and for s # 0 every location that reads s is returned.
C18_SymbolListsEveryLocation ==
    tcall.fn = "symbol" =>
        /\ \A k \in 1..(Len(tcall.ret) - 1) : tcall.ret[k] < tcall.ret[k + 1]
        /\ \A k \in 1..Len(tcall.ret) :
              symbol_at_n(tape[1], tcall.ret[k]) = tcall.arg
        /\ tcall.arg # 0 =>
              \A p \in ReadPositions :
                 symbol_at_n(tape[1], p) = tcall.arg =>
                    \E k \in 1..Len(tcall.ret) : tcall.ret[k] = p

\* C18, on the supported range only.
C18_HoldsInSupportedRange ==
    tcall.fn = "symbol" =>
        /\ \A k \in 1..(Len(tcall.ret) - 1) : tcall.ret[k] < tcall.ret[k + 1]
        /\ \A k \in 1..Len(tcall.ret) :
              symbol_at_n(tape[1], tcall.ret[k]) = tcall.arg
        /\ tcall.arg # 0 =>
              \A p \in ReadPositions \cap SupportedPositions :
                 symbol_at_n(tape[1], p) = tcall.arg =>
                    \E k \in 1..Len(tcall.ret) : tcall.ret[k] = p

\* C20: write(p, s) leaves what is read at every location q # p as it was,
\* also when the vector grows.
C20_WriteChangesOneLocation ==
    tcall.fn = "write" =>
        \A q \in ReadPositions \ {tcall.n} :
           symbol_at_n(tape[1], q) = symbol_at_n(tcall.before, q)

\* C20, on the supported range only, where the write also shows at p.
C20_HoldsInSupportedRange ==
    tcall.fn = "write" =>
        /\ symbol_at_n(tape[1], tcall.n) = tcall.symbol
        /\ \A q \in (ReadPositions \cap SupportedPositions) \ {tcall.n} :
              symbol_at_n(tape[1], q) = symbol_at_n(tcall.before, q)

\* The largest |p| over the locations written so far, 0 if there is none.
LargestWritten(log) ==
    IF log = <<>> THEN 0
    ELSE LET ps == {abs(log[k][1]) : k \in 1..Len(log)}
         IN  CHOOSE x \in ps : \A y \in ps : y <= x

\* C21: a write never shortens the vector of tape[1], and after any sequence
\* of writes its length is at most 2 * M + 1, M the largest |p| written.
C21_LengthGrowsWithinBound ==
    /\ tcall.fn = "write" => Len(tape[1]) >= Len(tcall.before)
    /\ pc = "tape_idle" => Len(tape[1]) <= 2 * LargestWritten(written) + 1

\* A write at 0 after a write at 1: the vector keeps its length 3 = 2 * 1 + 1.
C21_Witness ==
    /\ tcall.fn = "write"
    /\ tcall.n = 0
    /\ Len(tcall.before) = 3
    /\ Len(tape[1]) = 3
    /\ LargestWritten(written) = 1

\* C21, along the runs of a machine: no step shortens the vector of the tape,
\* and a step that lengthens it leaves it 2 * |p| + 1 long at most, p the
\* location written.
C21_HoldsAlongRuns ==
    \A c \in Pairs : \A i \in 1..Len(hist[c]) :
       LET before == IF i = 1 THEN entry.tape ELSE hist[c][i - 1].tape
       IN  /\ Len(hist[c][i].tape) >= Len(before)
           /\ \/ Len(hist[c][i].tape) = Len(before)
              \/ Len(hist[c][i].tape) <= 2 * abs(hist[c][i].at) + 1

\* The keys whose pairing arithmetic exceeds the u64.
Oversized(key) == hash_key(key, TRUE) = Overflow

\* C22: building a table and looking a key up never fail, whatever the u64
\* values of the key: new fails for a repeated key only, and a lookup returns
\* the triple listed for a listed key and no match for any other key.
C22_BuildAndLookupNeverFail ==
    /\ built # None /\ ~built.ok => built.why = "duplicate"
    /\ probe # None =>
          /\ probe.result # Panic
          /\ probe.result = Associated(state_table, probe.key)

\* C22 holds in a build whose arithmetic wraps.
C22_HoldsWhereArithmeticWraps ==
    ~overflow_checks => C22_BuildAndLookupNeverFail

\* Where the build checks for overflow, new and run fail on oversized keys,
\* and on no other.
C22_FailsOnOversizedKeysOnly ==
    overflow_checks =>
        /\ pc # "tf_start" /\ DistinctKeys(state_table) =>
              (built.ok <=> \A i \in 1..Len(state_table) :
                               ~Oversized(state_table[i][1]))
        /\ probe # None =>
              IF Oversized(probe.key) THEN probe.result = Panic
              ELSE probe.result = Associated(state_table, probe.key)

\* C24: once a call entered with the head at h0 has applied k steps, the head
\* is at most k away from h0, at a distance of the parity of k, and the tape
\* differs from the tape at the entry only at locations written, all of
\* which lie in [h0 - (k - 1), h0 + (k - 1)].
C24_HeadWithinSteps ==
    \A c \in Pairs :
       LET k  == Len(hist[c])
           h0 == entry.head_loc
           h  == After(c, k).head_loc
           tp == After(c, k).tape
       IN  /\ abs(h - h0) <= k
           /\ (h - h0 - k) % 2 = 0
           /\ \A j \in 1..k : abs(hist[c][j].at - h0) <= k - 1
           /\ \A p \in Positions(entry.tape, tp) :
                 abs(p - h0) > k - 1 =>
                    symbol_at_n(tp, p) = symbol_at_n(entry.tape, p)

\* A call entered with the head away from 0 has applied three steps, not all
\* in one direction, and written at h0 + 2, the farthest three steps reach.
C24_Witness ==
    /\ pc = "returned"
    /\ entry.head_loc # 0
    /\ Len(hist[cur]) = 3
    /\ abs(m[cur].head_loc - entry.head_loc) = 1
    /\ \E j \in 1..3 : abs(hist[cur][j].at - entry.head_loc) = 2

\* The lookup finds no transition for the state and the symbol under the head
\* of the configuration the running call was entered with: what the run saw
\* that left it there for lack of a transition.
HaltedAtEntry ==
    TransitionFn_run(m[cur].transition_fn, entry.state,
                     symbol_at_n(entry.tape, entry.head_loc),
                     overflow_checks) = None

\* C25: a call entered where no transition matches (as every call is that
\* follows, without reset, a run stopped for lack of a transition) applies no
\* step under any halt setting, leaves tape, state and head as they were,
\* and records an empty step log.
C25_HaltedIsAbsorbing ==
    pc # "idle" /\ HaltedAtEntry =>
        /\ \A c \in Pairs : hist[c] = <<>> /\ Config(c) = entry
        /\ steps = <<>>
        /\ pc \in {"check", "lookup", "exit", "returned"}
        /\ pc = "returned" /\ Records(op) => rec[cur].v.steps = <<>>

\* The second call on a machine that has applied a transition and was not
\* reset since: a recording call bounded by steps that found no transition,
\* has returned, and has applied none.
C25_Witness ==
    /\ pc = "returned"
    /\ cur = 1
    /\ calls = 2
    /\ IsSome(last[1])
    /\ op = "run_with_halt_setting_and_record"
    /\ halt_setting = AfterSteps(7)
    /\ output = None
    /\ HaltedAtEntry
    /\ rec[1].v.steps = <<>>

\* C23: AfterSteps(N) and then, without reset and on the same tape,
\* AfterSteps(M) leave tape, state and head as the single AfterSteps(N + M)
\* run from the same start leaves them, and the step logs of the two
\* Recordings, concatenated, are the step log of the single run's Recording.
C23_SplitRunEqualsWholeRun ==
    pc = "returned" /\ cur = 2 /\ Len(kept) = 2 =>
        /\ halt_setting = AfterSteps(kept[1].n + kept[2].n)
        /\ Config(1) = Config(2)
        /\ kept[1].rec.steps \o kept[2].rec.steps = rec[2].v.steps

\* Both parts applied steps, and the single run applied as many as the two:
\* three.
C23_Witness ==
    /\ pc = "returned"
    /\ cur = 2
    /\ Len(kept) = 2
    /\ kept[1].n = 1
    /\ kept[2].n = 2
    /\ Len(kept[1].rec.steps) = 1
    /\ Len(kept[2].rec.steps) = 2
    /\ Len(rec[2].v.steps) = 3
    /\ Len(hist[2]) = 3

\* chaitin_approx is running a machine, or has counted one, of a table
\* enumerated for num_symbols >= 1.
Enumerated ==
    /\ chaitin.num_symbols >= 1
    /\ \/ pc \in {"check", "lookup", "set_state", "write", "move", "exit",
                   "returned"}
       \/ pc \in {"chaitin_loop", "chaitin_done"} /\ chaitin.t >= 1

\* No transition matches the state of machine 1 and the symbol under its head.
NoTransition == ~IsSome(TripleAt(m[1].transition_fn, Config(1)))

\* C26: a machine of a table of enumerate(S, K), K >= 1, run from state 0 on
\* a blank tape, keeps every tape symbol below K and its state at most S, and
\* no transition matches exactly when its state is S; chaitin_approx counts
\* it as halted exactly if the run left it where no transition matches --
\* under AfterSteps(N), exactly if it reaches such a configuration within N
\* steps.
C26_CountedHaltedIffNoTransition ==
    Enumerated =>
        /\ m[1].state <= chaitin.num_states
        /\ \A i \in 1..Len(tape[1]) : tape[1][i] < chaitin.num_symbols
        /\ BetweenSteps(1) =>
              (NoTransition <=> m[1].state = chaitin.num_states)
        /\ pc \in {"chaitin_loop", "chaitin_done"} =>
              /\ chaitin.counted = "halted" <=> NoTransition
              /\ halt_setting.kind = "AfterSteps" =>
                    (chaitin.counted = "halted" <=>
                        StepsToHalt(m[1].transition_fn,
                                    [tape |-> <<>>, state |-> 0, head_loc |-> 0],
                                    halt_setting.n + 1) <= halt_setting.n)
              /\ Len(hist[1]) <= MaxSteps
              /\ chaitin.halted + chaitin.undecided = chaitin.t

\* Of the tables of enumerate(2, 1), one machine has been counted as halted
\* after two steps and a failed lookup, and an earlier one as undecided.
C26_Witness ==
    /\ pc = "chaitin_loop"
    /\ chaitin.num_states = 2
    /\ chaitin.num_symbols = 1
    /\ chaitin.counted = "halted"
    /\ chaitin.undecided >= 1
    /\ halt_setting = AfterSteps(7)
    /\ Len(hist[1]) = 2
    /\ output = None
    /\ m[1].state = 2

\* chaitin_approx has returned: the machines of enumerate(1, 2) under
\* AfterSteps(2), of which it counted some as halted and some as undecided.
C26_Returned ==
    /\ pc = "chaitin_done"
    /\ chaitin.num_states = 1
    /\ chaitin.num_symbols = 2
    /\ chaitin.halt_setting = AfterSteps(2)
    /\ chaitin.t = 64
    /\ chaitin.halted >= 1
    /\ chaitin.undecided >= 1

\* A machine counted as halted whose run was ended by the step bound, right
\* after the step that took it to state num_states.
C26_HaltedAtTheBound ==
    /\ pc = "chaitin_loop"
    /\ chaitin.counted = "halted"
    /\ chaitin.num_symbols >= 1
    /\ halt_setting = AfterSteps(2)
    /\ Len(hist[1]) = 2
    /\ output = Unset
====
